---------------------------- MODULE Spec2Model ----------------------------
(***************************************************************************)
(* A model of board-game-geom (src/src/lib.rs): lattice points, moves,     *)
(* 2x2 rotation matrices, the Geom rectangle (containment, Point <-> CellId *)
(* conversion, point iterators) and the dense Table container.             *)
(*                                                                         *)
(* Representation.  Rust tuple structs become TLA+ tuples, field .k being  *)
(* component k+1: Point(r, c) is <<r, c>>, Size(rows, columns) is          *)
(* <<rows, columns>>, Move(y, x) is <<y, x>>, Rotation(a, b, c, d) is      *)
(* <<a, b, c, d>>.  An Option<Point> is [some |-> BOOLEAN, val |-> Point]. *)
(* A Vec<T> is a sequence; Rust's data[i] is the sequence's element i+1.   *)
(* A usize is [wrap |-> w, off |-> o], standing for w * 2^64 + o: a cast   *)
(* of a negative i32 sign-extends to 2^64 + o (w = 1, o < 0), every other  *)
(* value met here has w = 0.  All i32 inputs are drawn from ranges in      *)
(* which no i32 operation of the code overflows.                           *)
(***************************************************************************)
EXTENDS Integers, Sequences, FiniteSets

VARIABLES
    rr,       \* the last Rotation * Rotation evaluated: operands and product
    rm,       \* the last Rotation * Move evaluated: operands and product
    geom,     \* the Size of the rectangle (a Rect implementing Geom)
    conv,     \* the last Point <-> CellId conversion calls and their results
    it,       \* the point iterator in use (Points, PointsInRow, PointsInColumn)
    yielded,  \* the points the iterator's next() has returned so far
    ended,    \* TRUE once the iterator's next() has returned None
    fresh,    \* how many iterators have been obtained from the rectangle
    arg,      \* the row or column number the iterator was asked for
    table,    \* the Table<T>: whether construction succeeded, its size and data
    ctor,     \* the arguments the Table constructor was called with
    last,     \* the last point-indexed access of the Table
    stored,   \* history: the value last stored through a point outside the
              \* Table's rectangle, at first the constructor's outside argument
    before    \* history: the Table as it was before the last access

vars ==
    << rr, rm, geom, conv, it, yielded, ended, fresh, arg,
       table, ctor, last, stored, before >>

---------------------------------------------------------------------------
(* Bounds of the model. *)

\* Rectangle dimensions range over -1 .. MaxDim: a negative one, zero, and the
\* positive ones up to MaxDim.
MaxDim == 4

\* The dimensions of a Table's Size range over -1 .. MaxTableDim.
MaxTableDim == 2

\* Table::new is called with data vectors of length 0 .. MaxLen, and
\* Table::new_empty with sizes of at most MaxLen cells.
MaxLen == 4

\* points() is called at most MaxFresh times in a run.
MaxFresh == 2

Dims == -1..MaxDim

Sizes == Dims \X Dims

\* Point coordinates, row and column numbers: below every rectangle, inside,
\* and at or beyond the largest one.
Coords == -1..MaxDim

Points == Coords \X Coords

TableDims == -1..MaxTableDim

TableSizes == TableDims \X TableDims

\* The points a Table is read and written at.
TablePoints == TableDims \X TableDims

\* Whether p lies in the rectangle of the given size.
InRect(size, p) ==
    0 <= p[1] /\ p[1] < size[1] /\ 0 <= p[2] /\ p[2] < size[2]

\* The values of the Table's element type T.
Values == {"X", "Y"}

---------------------------------------------------------------------------
(* Move and Rotation arithmetic. *)

MOVE_UP == <<-1, 0>>

MOVE_RIGHT == <<0, 1>>

MOVE_DOWN == <<1, 0>>

MOVE_LEFT == <<0, -1>>

MOVE_ALL_ADJACENTS ==
    << MOVE_UP, <<-1, 1>>, MOVE_RIGHT, <<1, 1>>,
       MOVE_DOWN, <<1, -1>>, MOVE_LEFT, <<-1, -1>> >>

Move_add(self, other) == <<self[1] + other[1], self[2] + other[2]>>

ROT_CCW0 == <<1, 0, 0, 1>>

ROT_CCW90 == <<0, -1, 1, 0>>

ROT_CCW180 == <<-1, 0, 0, -1>>

ROT_CCW270 == <<0, 1, -1, 0>>

ROT_H_FLIP == <<1, 0, 0, -1>>

ROT_V_FLIP == <<-1, 0, 0, 1>>

\* A slip in the second entry of the product: other.2 where other.3 is meant.
Rotation_mul_Rotation_slip(self, other) ==
    << self[1] * other[1] + self[2] * other[3],
       self[1] * other[2] + self[2] * other[3],
       self[3] * other[1] + self[4] * other[3],
       self[3] * other[2] + self[4] * other[4] >>

Rotation_mul_Rotation(self, other) ==
    << self[1] * other[1] + self[2] * other[3],
       self[1] * other[2] + self[2] * other[4],
       self[3] * other[1] + self[4] * other[3],
       self[3] * other[2] + self[4] * other[4] >>

\* The matrix applied transposed.
Rotation_mul_Move_transposed(self, other) ==
    << self[1] * other[1] + self[3] * other[2],
       self[2] * other[1] + self[4] * other[2] >>

Rotation_mul_Move(self, other) ==
    << self[1] * other[1] + self[2] * other[2],
       self[3] * other[1] + self[4] * other[2] >>

\* The named rotations and moves the products are evaluated on.
Rotations ==
    {ROT_CCW0, ROT_CCW90, ROT_CCW180, ROT_CCW270, ROT_H_FLIP, ROT_V_FLIP}

Moves == {MOVE_ALL_ADJACENTS[k] : k \in 1..8}

RotIdle ==
    /\ rr = [called |-> FALSE, a |-> ROT_CCW0, b |-> ROT_CCW0, out |-> ROT_CCW0]
    /\ rm = [called |-> FALSE, r |-> ROT_CCW0, m |-> MOVE_UP, out |-> MOVE_UP]

MulRotation(a, b) ==
    /\ rr' = [called |-> TRUE, a |-> a, b |-> b,
              out |-> Rotation_mul_Rotation(a, b)]
    /\ UNCHANGED <<rm, geom, conv, it, yielded, ended, fresh, arg, table, ctor, last, stored, before>>

MulMove(r, m) ==
    /\ rm' = [called |-> TRUE, r |-> r, m |-> m,
              out |-> Rotation_mul_Move(r, m)]
    /\ UNCHANGED <<rr, geom, conv, it, yielded, ended, fresh, arg, table, ctor, last, stored, before>>

---------------------------------------------------------------------------
(* usize and i32 helpers. *)

\* `x as usize` of an i32 x: sign extension, 2^64 + x when x is negative.
AsUsize(x) == [wrap |-> IF x < 0 THEN 1 ELSE 0, off |-> x]

\* `u as i32` of a usize u: the low 32 bits, read as a signed number.
AsI32(u) == u.off

\* `u - 1` of a usize u other than 0.
UsizeSub1(u) == [wrap |-> u.wrap, off |-> u.off - 1]

\* Vec::len.
VecLen(v) == [wrap |-> 0, off |-> Len(v)]

Abs(x) == IF x < 0 THEN 0 - x ELSE x

\* i32 `/` with a divisor other than 0: the quotient truncated toward zero.
RustDiv(a, b) ==
    IF (a < 0) = (b < 0) THEN Abs(a) \div Abs(b) ELSE 0 - (Abs(a) \div Abs(b))

\* i32 `%` with a divisor other than 0: the remainder has the dividend's sign.
RustRem(a, b) == a - b * RustDiv(a, b)

Some(x) == [some |-> TRUE, val |-> x]

NonePoint == [some |-> FALSE, val |-> <<0, 0>>]

NoneI32 == [some |-> FALSE, val |-> 0]

---------------------------------------------------------------------------
(* CellId and the Geom trait's provided methods, for a rectangle of Size   *)
(* size.  A CellId is its usize.                                           *)

CELL_ID_OUTSIDE == [wrap |-> 0, off |-> 0]

is_outside(self) == self = CELL_ID_OUTSIDE

OUTSIDE_POINT == <<-1, -1>>

row(size) == size[1]

column(size) == size[2]

cell_len(size) == AsUsize(row(size) * column(size) + 1)

contains(size, p) ==
    0 <= p[1] /\ p[1] < size[1] /\ 0 <= p[2] /\ p[2] < size[2]

\* The row stride taken from row() instead of column().
point_to_cellid_row_stride(size, p) ==
    IF contains(size, p)
    THEN AsUsize(p[1] * row(size) + p[2] + 1)
    ELSE CELL_ID_OUTSIDE

\* The id computed without the offset that keeps 0 free for the outside.
point_to_cellid_zero_based(size, p) ==
    IF contains(size, p)
    THEN AsUsize(p[1] * column(size) + p[2])
    ELSE CELL_ID_OUTSIDE

point_to_cellid(size, p) ==
    IF contains(size, p)
    THEN AsUsize(p[1] * column(size) + p[2] + 1)
    ELSE CELL_ID_OUTSIDE

\* [panic |-> whether the call panics (division by zero), pt |-> its result]
cellid_to_point(size, id) ==
    IF is_outside(id)
    THEN [panic |-> FALSE, pt |-> OUTSIDE_POINT]
    ELSE LET idx == UsizeSub1(id)
         IN  IF column(size) = 0
             THEN [panic |-> TRUE, pt |-> <<0, 0>>]
             ELSE [panic |-> FALSE,
                   pt |-> << RustDiv(AsI32(idx), column(size)),
                             RustRem(AsI32(idx), column(size)) >>]

\* The CellIds handed to cellid_to_point (CellId::new takes any usize).
CellIds == {AsUsize(n) : n \in 0..(MaxDim * MaxDim + 1)}

ConvIdle ==
    conv = [op |-> "none", p |-> <<0, 0>>, inside |-> FALSE,
            id |-> CELL_ID_OUTSIDE, outside |-> FALSE, panic |-> FALSE, q |-> <<0, 0>>,
            qinside |-> FALSE, id2 |-> CELL_ID_OUTSIDE]

\* rect.contains(p), id = rect.point_to_cellid(p), id.is_outside(),
\* q = rect.cellid_to_point(id), rect.contains(q)
ConvertPoint(p) ==
    LET id == point_to_cellid(geom, p)
        back == cellid_to_point(geom, id)
    IN  /\ conv' = [op |-> "point", p |-> p, inside |-> contains(geom, p),
                    id |-> id, outside |-> is_outside(id),
                    panic |-> back.panic, q |-> back.pt,
                    qinside |-> ~back.panic /\ contains(geom, back.pt),
                    id2 |-> CELL_ID_OUTSIDE]
        /\ UNCHANGED <<rr, rm, geom, it, yielded, ended, fresh, arg, table, ctor, last, stored, before>>

\* q = rect.cellid_to_point(id), rect.contains(q), id2 = rect.point_to_cellid(q)
ConvertId(id) ==
    LET to == cellid_to_point(geom, id)
    IN  /\ conv' = [op |-> "id", p |-> <<0, 0>>, inside |-> FALSE,
                    id |-> id, outside |-> is_outside(id),
                    panic |-> to.panic, q |-> to.pt,
                    qinside |-> ~to.panic /\ contains(geom, to.pt),
                    id2 |-> IF to.panic THEN CELL_ID_OUTSIDE
                            ELSE point_to_cellid(geom, to.pt)]
        /\ UNCHANGED <<rr, rm, geom, it, yielded, ended, fresh, arg, table, ctor, last, stored, before>>

---------------------------------------------------------------------------
(* The point iterators. *)

points(size) ==
    IF row(size) > 0 /\ column(size) > 0
    THEN [kind |-> "Points", point |-> Some(<<0, 0>>), size |-> size]
    ELSE [kind |-> "Points", point |-> NonePoint, size |-> size]

\* The sweep bounded by the number of rows.
points_in_row_by_rows(size, r) ==
    [kind |-> "PointsInRow", row |-> r,
     columns |-> [start |-> 0, end |-> row(size)]]

points_in_row(size, r) ==
    [kind |-> "PointsInRow", row |-> r,
     columns |-> [start |-> 0, end |-> column(size)]]

points_in_column(size, c) ==
    [kind |-> "PointsInColumn", column |-> c,
     rows |-> [start |-> 0, end |-> row(size)]]

\* The row left one column late: `>` where `>=` is meant.
Points_next_late(self) ==
    IF self.point.some
    THEN LET cur == self.point.val
             wrapped == cur[2] + 1 > self.size[2]
             next == IF wrapped THEN <<cur[1] + 1, 0>> ELSE <<cur[1], cur[2] + 1>>
             end == wrapped /\ next[1] >= self.size[1]
         IN  [self |-> [self EXCEPT !.point = IF end THEN NonePoint ELSE Some(next)],
              item |-> Some(cur)]
    ELSE [self |-> self, item |-> NonePoint]

\* Each next is [self |-> the iterator after the call, item |-> what it returns].
Points_next(self) ==
    IF self.point.some
    THEN LET cur == self.point.val
             wrapped == cur[2] + 1 >= self.size[2]
             next == IF wrapped THEN <<cur[1] + 1, 0>> ELSE <<cur[1], cur[2] + 1>>
             end == wrapped /\ next[1] >= self.size[1]
         IN  [self |-> [self EXCEPT !.point = IF end THEN NonePoint ELSE Some(next)],
              item |-> Some(cur)]
    ELSE [self |-> self, item |-> NonePoint]

\* Range<i32>::next
Range_next(self) ==
    IF self.start < self.end
    THEN [self |-> [self EXCEPT !.start = self.start + 1], item |-> Some(self.start)]
    ELSE [self |-> self, item |-> NoneI32]

PointsInRow_next(self) ==
    LET c == Range_next(self.columns)
    IN  [self |-> [self EXCEPT !.columns = c.self],
         item |-> IF c.item.some THEN Some(<<self.row, c.item.val>>) ELSE NonePoint]

PointsInColumn_next(self) ==
    LET r == Range_next(self.rows)
    IN  [self |-> [self EXCEPT !.rows = r.self],
         item |-> IF r.item.some THEN Some(<<r.item.val, self.column>>) ELSE NonePoint]

IterIdle ==
    /\ it = [kind |-> "none"]
    /\ yielded = <<>>
    /\ ended = FALSE
    /\ fresh = 0
    /\ arg = 0

\* let it = rect.points();
CallPoints ==
    /\ fresh < MaxFresh
    /\ it' = points(geom)
    /\ yielded' = <<>>
    /\ ended' = FALSE
    /\ fresh' = fresh + 1
    /\ arg' = 0
    /\ UNCHANGED <<rr, rm, geom, conv, table, ctor, last, stored, before>>

\* let it = rect.points_in_row(r);
CallPointsInRow(r) ==
    /\ fresh < MaxFresh
    /\ it' = points_in_row(geom, r)
    /\ yielded' = <<>>
    /\ ended' = FALSE
    /\ fresh' = fresh + 1
    /\ arg' = r
    /\ UNCHANGED <<rr, rm, geom, conv, table, ctor, last, stored, before>>

\* let it = rect.points_in_column(c);
CallPointsInColumn(c) ==
    /\ fresh < MaxFresh
    /\ it' = points_in_column(geom, c)
    /\ yielded' = <<>>
    /\ ended' = FALSE
    /\ fresh' = fresh + 1
    /\ arg' = c
    /\ UNCHANGED <<rr, rm, geom, conv, table, ctor, last, stored, before>>

\* The caller's record of one it.next(): the item, or that it was None.
Took(n) ==
    /\ it' = n.self
    /\ yielded' = IF n.item.some THEN Append(yielded, n.item.val) ELSE yielded
    /\ ended' = ~n.item.some
    /\ UNCHANGED <<rr, rm, geom, conv, fresh, arg, table, ctor, last, stored, before>>

NextPoints == it.kind = "Points" /\ Took(Points_next(it))

NextInRow == it.kind = "PointsInRow" /\ Took(PointsInRow_next(it))

NextInColumn == it.kind = "PointsInColumn" /\ Took(PointsInColumn_next(it))

---------------------------------------------------------------------------
(* Table<T>: [state, size, data].  state is "none" before construction,    *)
(* "ok" once a constructor has returned and "panicked" when it panicked    *)
(* (no Table exists then).                                                 *)

NoTable(state) == [state |-> state, size |-> <<0, 0>>, data |-> <<>>]

\* a < b on usize
UsizeLt(a, b) == a.wrap < b.wrap \/ (a.wrap = b.wrap /\ a.off < b.off)

\* v[i] of a Vec: [panic |-> the index is out of bounds, val |-> the element]
VecIndex(v, i) ==
    IF UsizeLt(i, VecLen(v))
    THEN [panic |-> FALSE, val |-> v[i.off + 1]]
    ELSE [panic |-> TRUE, val |-> "X"]

\* The length only checked to be enough for the rectangle.
Table_new_at_least(size, outside, data) ==
    IF ~UsizeLt(VecLen(data), AsUsize(size[1] * size[2]))
    THEN [state |-> "ok", size |-> size, data |-> <<outside>> \o data]
    ELSE NoTable("panicked")

\* The outside value pushed at the end instead of inserted at index 0.
Table_new_push(size, outside, data) ==
    IF AsUsize(size[1] * size[2]) = VecLen(data)
    THEN [state |-> "ok", size |-> size, data |-> Append(data, outside)]
    ELSE NoTable("panicked")

Table_new(size, outside, data) ==
    IF AsUsize(size[1] * size[2]) = VecLen(data)
    THEN [state |-> "ok", size |-> size, data |-> <<outside>> \o data]
    ELSE NoTable("panicked")

\* vec![init; n]: [panic |-> capacity overflow, vec |-> n copies of init]
VecRepeat(init, n) ==
    IF n.wrap = 0
    THEN [panic |-> FALSE, vec |-> [k \in 1..n.off |-> init]]
    ELSE [panic |-> TRUE, vec |-> <<>>]

Table_new_empty(size, outside, init) ==
    LET data == VecRepeat(init, AsUsize(size[1] * size[2]))
    IN  IF data.panic THEN NoTable("panicked")
        ELSE Table_new(size, outside, data.vec)

\* Geom for Table<T>
Table_size(self) == self.size

\* A read that checks the point against the rectangle and fails outside it.
Table_index_checked(self, p) ==
    IF contains(Table_size(self), p)
    THEN VecIndex(self.data, point_to_cellid(Table_size(self), p))
    ELSE [panic |-> TRUE, val |-> "X"]

\* Index<Point>: [panic, val]
Table_index(self, p) ==
    LET idx == point_to_cellid(Table_size(self), p)
    IN  VecIndex(self.data, idx)

\* The slot computed without the sentinel's offset.
Table_index_mut_no_sentinel(self, p) ==
    IF contains(Table_size(self), p)
    THEN AsUsize(p[1] * column(Table_size(self)) + p[2])
    ELSE CELL_ID_OUTSIDE

\* IndexMut<Point>: the slot a write through table[p] stores to.
Table_index_mut(self, p) == point_to_cellid(Table_size(self), p)

\* table[p] = v: [panic, table]
Table_assign(self, p, v) ==
    LET idx == Table_index_mut(self, p)
    IN  IF UsizeLt(idx, VecLen(self.data))
        THEN [panic |-> FALSE,
              table |-> [self EXCEPT !.data = [self.data EXCEPT ![idx.off + 1] = v]]]
        ELSE [panic |-> TRUE, table |-> self]

\* Vectors of at most n Values.
VecsUpTo(n) == UNION {[1..k -> Values] : k \in 0..n}

\* The sizes Table::new_empty is called with.
SmallSizes == {size \in TableSizes : size[1] * size[2] <= MaxLen}

TableIdle ==
    /\ table = NoTable("none")
    /\ ctor = [kind |-> "none", size |-> <<0, 0>>, outside |-> "X",
               data |-> <<>>, init |-> "X"]
    /\ last = [op |-> "none", p |-> <<0, 0>>, val |-> "X", panic |-> FALSE]
    /\ stored = "X"
    /\ before = NoTable("none")

\* let mut table = Table::new(size, outside, data);
New(size, outside, data) ==
    /\ table.state = "none"
    /\ table' = Table_new(size, outside, data)
    /\ ctor' = [kind |-> "new", size |-> size, outside |-> outside,
                data |-> data, init |-> outside]
    /\ stored' = outside
    /\ UNCHANGED <<rr, rm, geom, conv, it, yielded, ended, fresh, arg, last, before>>

\* let mut table = Table::new_empty(size, outside, init);
NewEmpty(size, outside, init) ==
    /\ table.state = "none"
    /\ table' = Table_new_empty(size, outside, init)
    /\ ctor' = [kind |-> "new_empty", size |-> size, outside |-> outside,
                data |-> <<>>, init |-> init]
    /\ stored' = outside
    /\ UNCHANGED <<rr, rm, geom, conv, it, yielded, ended, fresh, arg, last, before>>

\* let val = table[p];
Read(p) ==
    /\ table.state = "ok"
    /\ LET r == Table_index(table, p)
       IN  last' = [op |-> "read", p |-> p, val |-> r.val, panic |-> r.panic]
    /\ before' = table
    /\ UNCHANGED <<rr, rm, geom, conv, it, yielded, ended, fresh, arg, table, ctor, stored>>

\* table[p] = v;
Write(p, v) ==
    /\ table.state = "ok"
    /\ LET w == Table_assign(table, p, v)
       IN  /\ table' = w.table
           /\ last' = [op |-> "write", p |-> p, val |-> v, panic |-> w.panic]
    /\ stored' = IF InRect(table.size, p) THEN stored ELSE v
    /\ before' = table
    /\ UNCHANGED <<rr, rm, geom, conv, it, yielded, ended, fresh, arg, ctor>>

---------------------------------------------------------------------------
(* Specifications. *)

InitRot == RotIdle /\ geom = <<0, 0>> /\ ConvIdle /\ IterIdle /\ TableIdle

NextRot ==
    \/ \E a \in Rotations, b \in Rotations : MulRotation(a, b)
    \/ \E r \in Rotations, m \in Moves : MulMove(r, m)

SpecRot == InitRot /\ [][NextRot]_vars

InitGeom == RotIdle /\ geom \in Sizes /\ ConvIdle /\ IterIdle /\ TableIdle

NextGeom ==
    \/ \E p \in Points : ConvertPoint(p)
    \/ \E id \in CellIds : ConvertId(id)

SpecGeom == InitGeom /\ [][NextGeom]_vars

NextIter ==
    \/ CallPoints
    \/ \E r \in Coords : CallPointsInRow(r)
    \/ \E c \in Coords : CallPointsInColumn(c)
    \/ NextPoints
    \/ NextInRow
    \/ NextInColumn

SpecIter == InitGeom /\ [][NextIter]_vars

NextCtor ==
    \/ \E size \in TableSizes, outside \in Values, data \in VecsUpTo(MaxLen) :
          New(size, outside, data)
    \/ \E size \in SmallSizes, outside \in Values, init \in Values :
          NewEmpty(size, outside, init)
    \/ \E p \in TablePoints : Read(p)

SpecCtor == InitRot /\ [][NextCtor]_vars

NextTable ==
    \/ \E size \in SmallSizes, outside \in Values, init \in Values :
          NewEmpty(size, outside, init)
    \/ \E p \in TablePoints : Read(p)
    \/ \E p \in TablePoints, v \in Values : Write(p, v)

SpecTable == InitRot /\ [][NextTable]_vars

---------------------------------------------------------------------------
(* The claims. *)

rot == <<ROT_CCW0, ROT_CCW90, ROT_CCW180, ROT_CCW270>>

dirs == <<MOVE_UP, MOVE_LEFT, MOVE_DOWN, MOVE_RIGHT>>

diags ==
    << Move_add(MOVE_UP, MOVE_RIGHT), Move_add(MOVE_LEFT, MOVE_UP),
       Move_add(MOVE_DOWN, MOVE_LEFT), Move_add(MOVE_RIGHT, MOVE_DOWN) >>

\* The usize of a natural number n.
Nat64(n) == [wrap |-> 0, off |-> n]

IsPrefix(s, t) == Len(s) <= Len(t) /\ \A k \in 1..Len(s) : s[k] = t[k]

\* The points of a rows x columns rectangle in row-major order.
RowMajor(size) ==
    IF size[1] > 0 /\ size[2] > 0
    THEN [k \in 1..(size[1] * size[2]) |->
              <<(k - 1) \div size[2], (k - 1) % size[2]>>]
    ELSE <<>>

\* Point(r, 0), ..., Point(r, columns - 1)
RowSweep(size, r) ==
    IF size[2] > 0 THEN [k \in 1..size[2] |-> <<r, k - 1>>] ELSE <<>>

\* Point(0, c), ..., Point(rows - 1, c)
ColumnSweep(size, c) ==
    IF size[1] > 0 THEN [k \in 1..size[1] |-> <<k - 1, c>>] ELSE <<>>

\* C1: in a rectangle with rows > 0 and columns > 0, a contained point p has
\* the id r * columns + c + 1, which lies in 1 .. rows * columns, and
\* cellid_to_point takes that id back to p; an id in 1 .. rows * columns is
\* taken by cellid_to_point to a contained point, which point_to_cellid takes
\* back to the id.
C1_Bijection ==
    (geom[1] > 0 /\ geom[2] > 0) =>
        /\ (conv.op = "point" /\ InRect(geom, conv.p)) =>
              /\ conv.id = Nat64(conv.p[1] * geom[2] + conv.p[2] + 1)
              /\ 1 <= conv.id.off /\ conv.id.off <= geom[1] * geom[2]
              /\ ~conv.panic
              /\ conv.q = conv.p
        /\ (conv.op = "id" /\ conv.id.wrap = 0
                /\ 1 <= conv.id.off /\ conv.id.off <= geom[1] * geom[2]) =>
              /\ ~conv.panic
              /\ InRect(geom, conv.q)
              /\ conv.qinside
              /\ conv.id2 = conv.id

C1_Witness ==
    /\ geom = <<2, 3>>
    /\ conv.op = "point" /\ conv.p = <<1, 2>>
    /\ conv.id = Nat64(6) /\ conv.q = <<1, 2>>

\* C2: for every size and point p, point_to_cellid(p).is_outside() is the
\* negation of contains(p), is_outside holding exactly of the id 0; and
\* cellid_to_point(CELL_ID_OUTSIDE) has two negative coordinates and is not
\* contained.
C2_Sentinel ==
    /\ conv.op = "point" =>
          /\ conv.outside = ~conv.inside
          /\ conv.inside = InRect(geom, conv.p)
    /\ conv.op # "none" => (conv.outside <=> conv.id = Nat64(0))
    /\ (conv.op # "none" /\ conv.id = Nat64(0)) =>
          /\ ~conv.panic
          /\ conv.q[1] < 0 /\ conv.q[2] < 0
          /\ ~conv.qinside
          /\ ~InRect(geom, conv.q)

C2_Witness ==
    /\ geom = <<2, 3>>
    /\ conv.op = "point" /\ conv.p = <<2, 0>>
    /\ ~conv.inside /\ conv.outside /\ conv.q = <<-1, -1>>

\* C3: the points() iterator yields the points of the rectangle in row-major
\* order, each once, which are exactly the points contains accepts, and then
\* None; with rows <= 0 or columns <= 0 its first next() is None and contains
\* accepts no point; an iterator obtained again starts over.
C3_Points ==
    it.kind = "Points" =>
        /\ IsPrefix(yielded, RowMajor(geom))
        /\ Len(yielded) = Len(RowMajor(geom)) => ~Points_next(it).item.some
        /\ Len(yielded) < Len(RowMajor(geom)) => ~ended
        /\ ended =>
              /\ yielded = RowMajor(geom)
              /\ {yielded[k] : k \in 1..Len(yielded)}
                    = {p \in Points : contains(geom, p)}
        /\ (geom[1] <= 0 \/ geom[2] <= 0) =>
              /\ RowMajor(geom) = <<>>
              /\ \A p \in Points : ~contains(geom, p)

C3_Witness ==
    /\ geom = <<4, 3>>
    /\ it.kind = "Points" /\ fresh = 2 /\ ended
    /\ yielded = << <<0, 0>>, <<0, 1>>, <<0, 2>>, <<1, 0>>, <<1, 1>>, <<1, 2>>,
                    <<2, 0>>, <<2, 1>>, <<2, 2>>, <<3, 0>>, <<3, 1>>, <<3, 2>> >>

\* C9: for every r, in the rectangle or not, points_in_row(r) yields
\* Point(r, 0), ..., Point(r, columns - 1) in that order and then None, and
\* for every c points_in_column(c) yields Point(0, c), ..., Point(rows - 1, c)
\* and then None; nothing when that dimension is not positive.
C9_Sweeps ==
    /\ it.kind = "PointsInRow" =>
          /\ IsPrefix(yielded, RowSweep(geom, arg))
          /\ Len(yielded) = Len(RowSweep(geom, arg))
                => ~PointsInRow_next(it).item.some
          /\ Len(yielded) < Len(RowSweep(geom, arg)) => ~ended
          /\ ended => yielded = RowSweep(geom, arg)
    /\ it.kind = "PointsInColumn" =>
          /\ IsPrefix(yielded, ColumnSweep(geom, arg))
          /\ Len(yielded) = Len(ColumnSweep(geom, arg))
                => ~PointsInColumn_next(it).item.some
          /\ Len(yielded) < Len(ColumnSweep(geom, arg)) => ~ended
          /\ ended => yielded = ColumnSweep(geom, arg)

C9_Witness ==
    /\ geom = <<2, 3>>
    /\ it.kind = "PointsInRow" /\ arg = 4 /\ ended
    /\ yielded = << <<4, 0>>, <<4, 1>>, <<4, 2>> >>

\* C7: rot[i] * rot[j] = rot[(i + j) mod 4] for the four quarter turns.
C7_RotationGroup ==
    \A i, j \in 0..3 :
        (rr.called /\ rr.a = rot[i + 1] /\ rr.b = rot[j + 1])
            => rr.out = rot[((i + j) % 4) + 1]

C7_Witness ==
    rr.called /\ rr.a = ROT_CCW90 /\ rr.b = ROT_CCW270 /\ rr.out = ROT_CCW0

\* C8: rot[i] * dirs[j] = dirs[(i + j) mod 4] for the four unit moves
\* up, left, down, right, and the same for the four diagonal moves
\* up+right, left+up, down+left, right+down.
C8_RotationAction ==
    \A i, j \in 0..3 :
        /\ (rm.called /\ rm.r = rot[i + 1] /\ rm.m = dirs[j + 1])
              => rm.out = dirs[((i + j) % 4) + 1]
        /\ (rm.called /\ rm.r = rot[i + 1] /\ rm.m = diags[j + 1])
              => rm.out = diags[((i + j) % 4) + 1]

C8_Witness ==
    rm.called /\ rm.r = ROT_CCW90 /\ rm.m = <<-1, 1>> /\ rm.out = <<-1, -1>>

\* What a read at p is to return right after construction: the row-major
\* element of the data (the initial value for new_empty) at a contained
\* point, and the outside value elsewhere.
Constructed(c, p) ==
    IF InRect(c.size, p)
    THEN IF c.kind = "new" THEN c.data[p[1] * c.size[2] + p[2] + 1] ELSE c.init
    ELSE c.outside

\* The index in data, counted from 0, of the slot table[p] names.
Slot(size, p) == IF InRect(size, p) THEN p[1] * size[2] + p[2] + 1 ELSE 0

\* C4: every point outside the Table's rectangle reads, without failing, the
\* value last written through any point outside it, or the constructor's
\* outside value when there was no such write; so right after a write
\* table[p] = Y at an outside p every outside q reads Y.
C4_OutsideAliasing ==
    table.state = "ok" =>
        /\ \A q \in TablePoints :
              ~InRect(table.size, q)
                  => Table_index(table, q) = [panic |-> FALSE, val |-> stored]
        /\ (last.op = "write" /\ ~InRect(table.size, last.p)) =>
              /\ ~last.panic
              /\ stored = last.val
        /\ (last.op = "read" /\ ~InRect(table.size, last.p)) =>
              /\ ~last.panic
              /\ last.val = stored
        /\ last.op = "none" => stored = ctor.outside

C4_Witness ==
    /\ table.state = "ok" /\ table.size = <<2, 2>> /\ ctor.outside = "X"
    /\ last.op = "write" /\ last.p = <<2, 2>> /\ last.val = "Y"
    /\ Table_index(table, <<-1, 1>>) = [panic |-> FALSE, val |-> "Y"]

\* C5: after Table::new(size, outside, data) has succeeded, a contained
\* Point(r, c) reads data[r * columns + c] and every other point reads
\* outside; after Table::new_empty(size, outside, init), a contained point
\* reads init and every other point reads outside.
C5_ConstructedReads ==
    table.state = "ok" =>
        /\ \A p \in TablePoints :
              Table_index(table, p)
                  = [panic |-> FALSE, val |-> Constructed(ctor, p)]
        /\ last.op = "read" =>
              /\ ~last.panic
              /\ last.val = Constructed(ctor, last.p)

C5_Witness ==
    /\ ctor.kind = "new" /\ ctor.size = <<2, 2>> /\ ctor.outside = "X"
    /\ ctor.data = <<"X", "X", "Y", "X">>
    /\ table.state = "ok"
    /\ last.op = "read" /\ last.p = <<1, 0>> /\ last.val = "Y"

\* C6: Table::new(size, outside, data) panics, producing no Table, whenever
\* the length of data differs from rows * columns; it succeeds exactly when
\* they are equal, and then stores outside followed by the data as given.
C6_LengthChecked ==
    ctor.kind = "new" =>
        /\ table.state = "ok" <=> Len(ctor.data) = ctor.size[1] * ctor.size[2]
        /\ table.state # "ok" => table = NoTable("panicked")
        /\ table.state = "ok" =>
              /\ table.size = ctor.size
              /\ table.data = <<ctor.outside>> \o ctor.data

C6_Witness ==
    /\ ctor.kind = "new" /\ ctor.size = <<2, 2>> /\ Len(ctor.data) = 3
    /\ table = NoTable("panicked")

\* C10: a write table[p] = v changes only the slot point_to_cellid(p).id():
\* the Size, the storage length (always cell_len() = rows * columns + 1) and
\* the value read at every point of another slot are unchanged; reads change
\* nothing.
C10_WriteFrame ==
    /\ table.state = "ok" =>
          /\ VecLen(table.data) = cell_len(Table_size(table))
          /\ Len(table.data) = table.size[1] * table.size[2] + 1
    /\ last.op # "none" =>
          /\ before.state = "ok" /\ table.state = "ok"
          /\ table.size = before.size
          /\ Len(table.data) = Len(before.data)
          /\ last.op = "read" => table = before
          /\ last.op = "write" =>
                /\ ~last.panic
                /\ table.data[Slot(table.size, last.p) + 1] = last.val
                /\ \A k \in 1..Len(table.data) :
                      k # Slot(table.size, last.p) + 1
                          => table.data[k] = before.data[k]
                /\ \A q \in TablePoints :
                      Slot(table.size, q) # Slot(table.size, last.p)
                          => Table_index(table, q) = Table_index(before, q)

C10_Witness ==
    /\ ctor.kind = "new_empty" /\ ctor.size = <<2, 2>>
    /\ ctor.outside = "X" /\ ctor.init = "X"
    /\ last.op = "write" /\ last.p = <<0, 1>> /\ last.val = "Y"
    /\ before.data = <<"X", "X", "X", "X", "X">>
    /\ table.data = <<"X", "X", "Y", "X", "X">>

===========================================================================
